---------------------------- MODULE Spec2Model ----------------------------
(***************************************************************************)
(* A model of the kaplay/rapier plugin (src/src/index.ts): the anchor      *)
(* coordinate transform, the body and joint adapters with the part of the  *)
(* rapier world they act on, and the fixed-timestep stepper.               *)
(*                                                                         *)
(* Numbers.  The code computes in IEEE doubles; the model computes in      *)
(* exact integer arithmetic.  Shape sizes are even numbers of pixels, and   *)
(* the fractional anchor deltas of the source (multiples of 0.5) are       *)
(* stored doubled, so that size * delta is the integer                     *)
(* (size * delta2) \div 2 and a half size is an integer.  Times are        *)
(* counted in milliseconds.                                                *)
(***************************************************************************)
EXTENDS Integers, Sequences, FiniteSets, TLC

VARIABLES
  xf,            \* the coordinate transform applied to one object (pure-function runs)
  world,         \* `world`: whether load() has defined it, and the rapier world's gravity
  PHYSICS_STEP,  \* the plugin's step interval in ms
  acc,           \* `acc`: the accumulator of the stepper, ms
  updateCount,   \* `updateCount`: world steps taken so far
  pc,            \* position inside the onUpdate callback: "idle" or "loop"
  hostGravity,   \* what k.getGravity() returns
  frameDts,      \* the frame durations k.dt() * 1000 can report, ms
  elapsed,       \* history: the sum of all frame deltas so far, ms
  lostFrames,    \* history: whether a frame ran while the world was undefined
  gobj,          \* the game objects carrying a body component: shape, pos, anchor, angle
  comp,          \* per object, the closure of rapierBody: opts, rbody, collider
  view,          \* the velocity proxy the game last obtained
  jcomp,         \* per joint component, the closure of rapierJoint: joint, and its options
  last           \* history: the last adapter operation and what it observed

vars == <<xf, world, PHYSICS_STEP, acc, updateCount, pc, hostGravity, frameDts,
          elapsed, lostFrames, gobj, comp, view, jcomp, last>>

bodyVars == <<gobj, comp, view, jcomp, last>>

stepperVars == <<world, PHYSICS_STEP, acc, updateCount, pc, hostGravity, frameDts,
                 elapsed, lostFrames>>

----------------------------------------------------------------------------
(* Bounds of the model *)

MaxCoord == 2       \* positions range over -MaxCoord..MaxCoord
MaxSize == 2        \* shape sizes range over the even numbers 0..2*MaxSize
MaxDt == 7          \* a frame lasts 0..MaxDt ms
MaxElapsed == 12    \* frames are generated while the elapsed time stays below this
MaxUpdates == 16    \* cap of the step counter

----------------------------------------------------------------------------
(* Vectors *)

Vec(x, y) == [x |-> x, y |-> y]

\* an optional number of the options: given or not, and a ?? default
Some(n) == [given |-> TRUE, value |-> n]
None == [given |-> FALSE, value |-> 0]
OrElse(opt, default) == IF opt.given THEN opt.value ELSE default

SetMax(S) == CHOOSE m \in S : \A s \in S : s <= m
SetMin(S) == CHOOSE m \in S : \A s \in S : m <= s

----------------------------------------------------------------------------
(* Visual objects of the host engine *)

AnchorNames == {"bot", "botleft", "botright", "center", "left", "right",
                "top", "topleft", "topright"}

\* obj.anchor: a name, a point (coordinates doubled), or not set
NamedAnchor(n) == [tag |-> "string", name |-> n, x |-> 0, y |-> 0]
PointAnchor(x2, y2) == [tag |-> "vec2", name |-> "", x |-> x2, y |-> y2]
NoAnchor == [tag |-> "undefined", name |-> "", x |-> 0, y |-> 0]

\* obj.is(tag)
Is(obj, tag) == tag \in obj.tags

\* obj.renderArea().bbox(): the width and height of the object's shape
renderAreaBBox(obj) ==
  IF Is(obj, "polygon")
    THEN LET xs == {obj.pts[i].x : i \in DOMAIN obj.pts}
             ys == {obj.pts[i].y : i \in DOMAIN obj.pts}
         IN  [width |-> SetMax(xs) - SetMin(xs), height |-> SetMax(ys) - SetMin(ys)]
  ELSE IF Is(obj, "rect")
    THEN [width |-> obj.width, height |-> obj.height]
  ELSE [width |-> 2 * obj.radius, height |-> 2 * obj.radius]

\* new k.Rect(k.vec2(0, 0), 0, 0)
ZeroRect == [width |-> 0, height |-> 0]

\* const isVisible = obj.is("polygon") || obj.is("rect") || obj.is("circle")
IsVisible(obj) == Is(obj, "polygon") \/ Is(obj, "rect") \/ Is(obj, "circle")

----------------------------------------------------------------------------
(* The coordinate transform *)

\* a slip in the table: the rows of "top" and "bot" exchanged
anchorToCenterTopBotSwapped(name) ==
  CASE name = "bot"      -> <<0, 1>>
    [] name = "botleft"  -> <<1, -1>>
    [] name = "botright" -> <<-1, -1>>
    [] name = "center"   -> <<0, 0>>
    [] name = "left"     -> <<1, 0>>
    [] name = "right"    -> <<-1, 0>>
    [] name = "top"      -> <<0, -1>>
    [] name = "topleft"  -> <<1, 1>>
    [] name = "topright" -> <<-1, 1>>

\* the table of the source, every delta doubled
anchorToCenter(name) ==
  CASE name = "bot"      -> <<0, -1>>
    [] name = "botleft"  -> <<1, -1>>
    [] name = "botright" -> <<-1, -1>>
    [] name = "center"   -> <<0, 0>>
    [] name = "left"     -> <<1, 0>>
    [] name = "right"    -> <<-1, 0>>
    [] name = "top"      -> <<0, 1>>
    [] name = "topleft"  -> <<1, 1>>
    [] name = "topright" -> <<-1, 1>>

getDefaultAnchorFor(obj) ==
  IF Is(obj, "circle") THEN NamedAnchor("center") ELSE NamedAnchor("topleft")

\* const anchor = obj.anchor ?? getDefaultAnchorFor(obj), then the two deltas (doubled)
AnchorDelta(obj) ==
  LET anchor == IF obj.anchor.tag = "undefined" THEN getDefaultAnchorFor(obj)
                ELSE obj.anchor
  IN  IF anchor.tag = "string"
        THEN anchorToCenter(anchor.name)
        ELSE <<1 - anchor.x, 1 - anchor.y>>

\* size * delta, the delta given doubled
Scaled(size, delta2) == (size * delta2) \div 2

translateAnchorToCenter(obj, isVisible) ==
  LET renderArea == IF isVisible THEN renderAreaBBox(obj) ELSE ZeroRect
      d == AnchorDelta(obj)
  IN  Vec(obj.pos.x + Scaled(renderArea.width, d[1]),
          obj.pos.y + Scaled(renderArea.height, d[2]))

\* a slip in the inverse: the offset added again instead of subtracted
translateCenterToAnchorSameSign(pos, obj, isVisible) ==
  IF Is(obj, "polygon") THEN Vec(pos.x, pos.y)
  ELSE LET renderArea == IF isVisible THEN renderAreaBBox(obj) ELSE ZeroRect
           d == AnchorDelta(obj)
       IN  Vec(pos.x + Scaled(renderArea.width, d[1]),
               pos.y + Scaled(renderArea.height, d[2]))

translateCenterToAnchor(pos, obj, isVisible) ==
  IF Is(obj, "polygon") THEN Vec(pos.x, pos.y)
  ELSE LET renderArea == IF isVisible THEN renderAreaBBox(obj) ELSE ZeroRect
           d == AnchorDelta(obj)
       IN  Vec(pos.x + Scaled(renderArea.width, -d[1]),
               pos.y + Scaled(renderArea.height, -d[2]))

----------------------------------------------------------------------------
(* Inputs of the transform *)

Coords == (-MaxCoord)..MaxCoord
Sizes == {2 * i : i \in 0..MaxSize}
Positions == {Vec(x, y) : x \in {0, MaxCoord}, y \in {-MaxCoord, 1}}

Anchors == {NamedAnchor(n) : n \in AnchorNames}
             \cup {PointAnchor(x, y) : x \in {-2, 1}, y \in {0, 2}}
             \cup {NoAnchor}

NoPts == << >>

RectObj(w, h, p, a) ==
  [tags |-> {"rect"}, width |-> w, height |-> h, radius |-> 0, pts |-> NoPts,
   pos |-> p, anchor |-> a, angle |-> [n |-> 0, k |-> 0]]
CircleObj(r, p, a) ==
  [tags |-> {"circle"}, width |-> 0, height |-> 0, radius |-> r, pts |-> NoPts,
   pos |-> p, anchor |-> a, angle |-> [n |-> 0, k |-> 0]]
PolygonObj(pts, p, a) ==
  [tags |-> {"polygon"}, width |-> 0, height |-> 0, radius |-> 0, pts |-> pts,
   pos |-> p, anchor |-> a, angle |-> [n |-> 0, k |-> 0]]
ShapelessObj(p, a) ==
  [tags |-> {}, width |-> 0, height |-> 0, radius |-> 0, pts |-> NoPts,
   pos |-> p, anchor |-> a, angle |-> [n |-> 0, k |-> 0]]

\* vertex lists: a triangle, a square, and three collinear points
Triangle == <<Vec(0, 0), Vec(4, 0), Vec(0, 2)>>
Square == <<Vec(-2, -2), Vec(2, -2), Vec(2, 2), Vec(-2, 2)>>
Collinear == <<Vec(0, 0), Vec(2, 2), Vec(4, 4)>>

XformObjs ==
  {RectObj(w, h, p, a) : w \in Sizes, h \in Sizes \ {0}, p \in Positions, a \in Anchors}
    \cup {CircleObj(r, p, a) : r \in Sizes \ {0}, p \in Positions, a \in Anchors}
    \cup {PolygonObj(pts, p, a) : pts \in {Triangle, Square}, p \in Positions,
                                  a \in Anchors}
    \cup {ShapelessObj(p, a) : p \in Positions, a \in Anchors}

NoObj == ShapelessObj(Vec(0, 0), NoAnchor)
XfIdle == [stage |-> "off", obj |-> NoObj, center |-> Vec(0, 0), back |-> Vec(0, 0)]

----------------------------------------------------------------------------
(* The transform as a two-step run: toCenter, then toAnchor of its result *)

XToCenter ==
  /\ xf.stage = "input"
  /\ xf' = [xf EXCEPT !.stage = "centered",
                      !.center = translateAnchorToCenter(xf.obj, IsVisible(xf.obj))]
  /\ UNCHANGED <<stepperVars, bodyVars>>

XToAnchor ==
  /\ xf.stage = "centered"
  /\ xf' = [xf EXCEPT !.stage = "returned",
                      !.back = translateCenterToAnchor(xf.center, xf.obj,
                                                       IsVisible(xf.obj))]
  /\ UNCHANGED <<stepperVars, bodyVars>>

----------------------------------------------------------------------------
(* The rapier world: bodies, colliders and joints by handle *)

Null == 0                       \* null: no body, no collider, no descriptor

EmptyMap == [h \in {} |-> Null]
Put(f, k, v) == [x \in DOMAIN f \cup {k} |-> IF x = k THEN v ELSE f[x]]
Drop(f, ks) == [x \in DOMAIN f \ ks |-> f[x]]

\* let world: RAPIER.World, before load() assigns it
UndefinedWorld ==
  [defined |-> FALSE, gravity |-> Vec(0, 0), handles |-> 0,
   bodies |-> EmptyMap, colliders |-> EmptyMap, joints |-> EmptyMap]

\* new R.World(new R.Vector2(0, 20))
InitialGravity == 20
NewWorld == [UndefinedWorld EXCEPT !.defined = TRUE, !.gravity = Vec(0, InitialGravity)]

\* the handles of the world's bodies, colliders and joints, and the handles given out
WorldSets(w) == <<DOMAIN w.bodies, DOMAIN w.colliders, DOMAIN w.joints, w.handles>>

\* the record of the last operation, before any has run
NoLast ==
  [op |-> "", o |-> 1, threw |-> "", touched |-> FALSE,
   sets |-> WorldSets(UndefinedWorld), linvel |-> Vec(0, 0), arg |-> Vec(0, 0),
   ret |-> FALSE, translation |-> Vec(0, 0), num |-> 0]

\* an angle n * (180/pi)^k: k counts the radians-to-degrees conversions applied to n
Angle(n) == [n |-> n, k |-> 0]

\* k.rad2deg(r) = r * 180 / pi
rad2deg(a) == IF a.n = 0 THEN a ELSE [a EXCEPT !.k = @ + 1]

\* world.createRigidBody(desc): a fresh handle and a body at rest at the origin
createRigidBody(w, desc) ==
  [w EXCEPT !.handles = @ + 1,
            !.bodies = Put(@, w.handles + 1,
                           [type |-> desc, translation |-> Vec(0, 0),
                            rotation |-> Angle(0), gravityScale |-> 1,
                            linvel |-> Vec(0, 0)])]

\* R.ColliderDesc.cuboid(hx, hy), R.ColliderDesc.ball(radius)
cuboid(hx, hy) == [kind |-> "cuboid", hx |-> hx, hy |-> hy, radius |-> 0, points |-> << >>]
ball(r) == [kind |-> "ball", hx |-> 0, hy |-> 0, radius |-> r, points |-> << >>]
NullDesc == [kind |-> "null", hx |-> 0, hy |-> 0, radius |-> 0, points |-> << >>]

\* twice the signed area of the triangle of the points i, j, k of a flat array
Cross(a, i, j, k) ==
  (a[2*j - 1] - a[2*i - 1]) * (a[2*k] - a[2*i])
    - (a[2*j] - a[2*i]) * (a[2*k - 1] - a[2*i - 1])

\* R.ColliderDesc.convexHull(points): the hull of the points of a flat array, or
\* null when no hull exists (fewer than three points, or all of them on one line)
convexHull(a) ==
  LET n == Len(a) \div 2
  IN  IF \E i, j, k \in 1..n : Cross(a, i, j, k) # 0
        THEN [kind |-> "convexHull", hx |-> 0, hy |-> 0, radius |-> 0, points |-> a]
        ELSE NullDesc

\* world.createCollider(desc, parent): a fresh handle, default mass and restitution
createCollider(w, desc, parent) ==
  [w EXCEPT !.handles = @ + 1,
            !.colliders = Put(@, w.handles + 1,
                              [shape |-> desc, parent |-> parent, mass |-> 0,
                               restitution |-> 0])]

\* world.removeCollider(collider, false)
removeCollider(w, c) == [w EXCEPT !.colliders = Drop(@, {c})]

\* world.removeRigidBody(body): the body, with the colliders and joints attached to it
removeRigidBody(w, b) ==
  [w EXCEPT !.bodies = Drop(@, {b}),
            !.colliders = Drop(@, {c \in DOMAIN @ : @[c].parent = b}),
            !.joints = Drop(@, {j \in DOMAIN @ : b \in {@[j].body1, @[j].body2}})]

\* the joint kinds of RapierJointDataOptions
JointKinds == {"fixed", "prismatic", "revolute", "rope", "spring"}

ZERO == Vec(0, 0)

\* an optional vector of the joint options
SomeVec(v) == [given |-> TRUE, value |-> v]
NoVec == [given |-> FALSE, value |-> ZERO]

\* the JointData rapierJoint builds by opts.joint.type, null for any other type;
\* params are the kind's own arguments in the order of the call
jointData(jo) ==
  LET a1 == OrElse(jo.anchor1, ZERO)
      a2 == OrElse(jo.anchor2, ZERO)
      data(params) == [type |-> jo.type, anchor1 |-> a1, anchor2 |-> a2, params |-> params]
  IN  CASE jo.type = "fixed" -> data(<<OrElse(jo.frame1, 0), OrElse(jo.frame2, 0)>>)
        [] jo.type = "prismatic" -> data(<<jo.axis.x, jo.axis.y>>)
        [] jo.type = "revolute" -> data(<< >>)
        [] jo.type = "rope" -> data(<<jo.length>>)
        [] jo.type = "spring" -> data(<<jo.restLength, jo.stiffness, jo.damping>>)
        [] OTHER -> [type |-> "null", anchor1 |-> ZERO, anchor2 |-> ZERO, params |-> << >>]

\* world.createImpulseJoint(data, body1, body2, true): the worlds it can lead to and
\* what it throws.  A joint is added under a fresh handle.  A null descriptor is
\* outside the engine's interface: it faults on it, or builds a joint from it
createImpulseJoint(w, data, b1, b2) ==
  LET added == [world |-> [w EXCEPT !.handles = @ + 1,
                                     !.joints = Put(@, w.handles + 1,
                                                    [data |-> data, body1 |-> b1,
                                                     body2 |-> b2])],
                threw |-> "", joint |-> w.handles + 1]
      fault == [world |-> w, threw |-> "TypeError", joint |-> Null]
  IN  IF data.type = "null" THEN {fault, added} ELSE {added}

\* a slip in destroy: the joint is left in the world
removeImpulseJointForgotten(w, j) == w

\* world.removeImpulseJoint(joint, true); a joint already gone is left gone
removeImpulseJoint(w, j) == [w EXCEPT !.joints = Drop(@, {j})]

----------------------------------------------------------------------------
(* The body adapter: rapierBody *)

Objs == {1, 2}

DefaultOpts ==
  [isStatic |-> FALSE, kinematic |-> FALSE, mass |-> None, jumpPower |-> None,
   bounciness |-> None, gravityScale |-> None]

DefaultMass == 1
DefaultGravityScale == 1
DefaultJumpPower == 100

\* history of an adapter: how often it called world.createRigidBody and
\* world.createCollider, and the object as it was at the first of these calls
NothingMade == [bodies |-> 0, colliders |-> 0, obj |-> NoObj]

\* the component object rapierBody returns, with the variables of its closure
rapierBody(opts) ==
  [state |-> "alive", opts |-> opts, rbody |-> Null, collider |-> Null,
   jumpPower |-> OrElse(opts.jumpPower, DefaultJumpPower), touched |-> FALSE,
   made |-> NothingMade]

NoComp == [rapierBody(DefaultOpts) EXCEPT !.state = "none"]

\* convertPolygonPts: the vertices flattened to x0, y0, x1, y1, ...
convertPolygonPts(pts) ==
  [i \in 1..(2 * Len(pts)) |->
     IF i % 2 = 1 THEN pts[(i + 1) \div 2].x ELSE pts[i \div 2].y]

\* the state an adapter operation works on, and the error it throws ("" for none)
Cur == [world |-> world, comp |-> comp, gobj |-> gobj, threw |-> ""]
Throw(S, e) == [S EXCEPT !.threw = e]

\* a slip in the box: the full width and height passed as half-extents
colliderDescForFullExtents(obj) ==
  IF Is(obj, "polygon") THEN convexHull(convertPolygonPts(obj.pts))
  ELSE IF Is(obj, "rect") THEN cuboid(obj.width, obj.height)
  ELSE ball(obj.radius)

\* the collider descriptor ensureBody builds for a visible object, by shape
colliderDescFor(obj) ==
  IF Is(obj, "polygon") THEN convexHull(convertPolygonPts(obj.pts))
  ELSE IF Is(obj, "rect") THEN cuboid(obj.width \div 2, obj.height \div 2)
  ELSE ball(obj.radius)

\* ensureBody past its early return: the body, then the collider by shape
createBody(S, o) ==
    LET isVisible == IsVisible(S.gobj[o])
        obj == IF Is(S.gobj[o], "rotate") THEN S.gobj[o]
               ELSE [S.gobj[o] EXCEPT !.tags = @ \cup {"rotate"}, !.angle = Angle(0)]
        opts == S.comp[o].opts
        S1 == [S EXCEPT !.gobj[o] = obj]
        desc == IF opts.isStatic THEN "fixed"
                ELSE IF opts.kinematic THEN "kinematicVelocityBased" ELSE "dynamic"
        h == S.world.handles + 1
        w1 == createRigidBody(S.world, desc)
        w2 == [w1 EXCEPT !.bodies[h].rotation = obj.angle,
                         !.bodies[h].gravityScale =
                            OrElse(opts.gravityScale, DefaultGravityScale),
                         !.bodies[h].translation =
                            translateAnchorToCenter(obj, isVisible)]
        S2 == [S1 EXCEPT !.world = w2, !.comp[o].rbody = h,
                         !.comp[o].made.bodies = @ + 1,
                         !.comp[o].made.obj =
                            IF S.comp[o].made.bodies = 0 THEN obj ELSE @]
        shape == colliderDescFor(obj)
        hc == w2.handles + 1
        w3 == createCollider(w2, shape, h)
        w4 == [w3 EXCEPT !.colliders[hc].mass = OrElse(opts.mass, DefaultMass)]
    IN  IF ~S.world.defined THEN Throw(S1, "TypeError")
        ELSE IF ~isVisible THEN S2
        ELSE IF shape = NullDesc THEN Throw(S2, "polygon is not convex")
        ELSE [S2 EXCEPT !.world = w4, !.comp[o].collider = hc,
                        !.comp[o].made.colliders = @ + 1]

\* a slip in ensureBody: the early return left out, every call creates a body
ensureBodyAlways(S, o) == createBody(S, o)

\* ensureBody(obj, rbody): if (rbody_ !== null) return
ensureBody(S, o) == IF S.comp[o].rbody # Null THEN S ELSE createBody(S, o)

\* a call on a body that has left the world: the engine faults on the stale handle
Gone(S, o) == S.comp[o].rbody \notin DOMAIN S.world.bodies

\* a slip in destroy: the body fetched through getRigidBody(), which creates it
destroyThroughGetter(S, o) ==
  LET E == ensureBody(S, o)
      c == E.comp[o].collider
      b == E.comp[o].rbody
      w1 == IF c # Null THEN removeCollider(E.world, c) ELSE E.world
      w2 == IF b # Null THEN removeRigidBody(w1, b) ELSE w1
  IN  [E EXCEPT !.world = w2]

\* destroy(): if (collider) world.removeCollider(...); if (rbody) world.removeRigidBody(...)
destroy(S, o) ==
  LET c == S.comp[o].collider
      b == S.comp[o].rbody
      w1 == IF c # Null THEN removeCollider(S.world, c) ELSE S.world
      w2 == IF b # Null THEN removeRigidBody(w1, b) ELSE w1
  IN  [S EXCEPT !.world = w2]

\* update(): the body's transform written back onto the object
update(S, o) ==
  LET isVisible == IsVisible(S.gobj[o])
      E == ensureBody(S, o)
      body == E.world.bodies[E.comp[o].rbody]
      translated == translateCenterToAnchor(body.translation, E.gobj[o], isVisible)
  IN  IF E.threw # "" THEN E
      ELSE IF Gone(E, o) THEN Throw(E, "EngineFault")
      ELSE [E EXCEPT !.gobj[o].pos = Vec(translated.x, translated.y),
                     !.gobj[o].angle = rad2deg(body.rotation)]

\* a fraction n/m with m > 0, and the order of two of them
Frac(n, m) == [n |-> n, m |-> m]
FracLeq(a, b) == a.n * b.m <= b.n * a.m

\* the times t at which o + t * d lies in lo..hi, as lower and upper bounds; none
\* when d = 0 and o is outside
SlabLower(o, d, lo, hi) ==
  IF d > 0 THEN {Frac(lo - o, d)} ELSE IF d < 0 THEN {Frac(o - hi, -d)}
  ELSE IF lo <= o /\ o <= hi THEN {} ELSE {Frac(1, 1)}
SlabUpper(o, d, lo, hi) ==
  IF d > 0 THEN {Frac(hi - o, d)} ELSE IF d < 0 THEN {Frac(o - lo, -d)}
  ELSE IF lo <= o /\ o <= hi THEN {} ELSE {Frac(0, 1)}

\* whether the ray origin + t * dir, 0 <= t <= maxToi, meets a solid shape centred
\* at c (bodies are taken unrotated): a box by its slabs, a ball by the distance of
\* its centre to the segment
RayHits(origin, dir, maxToi, shape, c) ==
  CASE shape.kind = "cuboid" ->
         LET lower == {Frac(0, 1)}
                        \cup SlabLower(origin.x, dir.x, c.x - shape.hx, c.x + shape.hx)
                        \cup SlabLower(origin.y, dir.y, c.y - shape.hy, c.y + shape.hy)
             upper == {Frac(maxToi, 1)}
                        \cup SlabUpper(origin.x, dir.x, c.x - shape.hx, c.x + shape.hx)
                        \cup SlabUpper(origin.y, dir.y, c.y - shape.hy, c.y + shape.hy)
         IN  \A l \in lower, u \in upper : FracLeq(l, u)
    [] shape.kind = "ball" ->
         LET px == origin.x - c.x
             py == origin.y - c.y
             ex == px + maxToi * dir.x
             ey == py + maxToi * dir.y
             dd == dir.x * dir.x + dir.y * dir.y
             pd == px * dir.x + py * dir.y
             rr == shape.radius * shape.radius
         IN  IF pd >= 0 \/ dd = 0 THEN px * px + py * py <= rr
             ELSE IF -pd >= maxToi * dd THEN ex * ex + ey * ey <= rr
             ELSE (px * px + py * py) * dd - pd * pd <= rr * dd

\* world.castRay(ray, maxToi, true, .., .., .., exclude) !== null: some collider of
\* another body is met
castRay(w, origin, dir, maxToi, exclude) ==
  \E h \in DOMAIN w.colliders :
    /\ w.colliders[h].parent # exclude
    /\ w.colliders[h].parent \in DOMAIN w.bodies
    /\ RayHits(origin, dir, maxToi, w.colliders[h].shape,
               w.bodies[w.colliders[h].parent].translation)

\* the ray of isGrounded: new R.Ray(rbody.translation(), k.vec2(width / 2, height + 1))
groundRay(bbox) == Vec(bbox.width \div 2, bbox.height + 1)

\* isGrounded(): the state after ensureBody, what is thrown, and the value returned;
\* an object with no shape has no renderArea to call
isGrounded(S, o) ==
  LET E == ensureBody(S, o)
      b == E.comp[o].rbody
  IN  IF E.threw # "" THEN [state |-> E, ret |-> FALSE]
      ELSE IF Gone(E, o) THEN [state |-> Throw(E, "EngineFault"), ret |-> FALSE]
      ELSE IF ~IsVisible(E.gobj[o]) THEN [state |-> Throw(E, "TypeError"), ret |-> FALSE]
      ELSE [state |-> E,
            ret |-> castRay(E.world, E.world.bodies[b].translation,
                            groundRay(renderAreaBBox(E.gobj[o])), 1, b)]

----------------------------------------------------------------------------
(* The stepper: rapierPlugin's k.onUpdate callback, one loop iteration a step *)

\* linear velocities and translations the model lets a body take
Vels == {0, 1}
VelVecs == {Vec(x, y) : x \in Vels, y \in Vels}
Reach == MaxCoord + 2 * MaxSize
InReach(t) == t.x \in (-Reach)..Reach /\ t.y \in (-Reach)..Reach

\* where a body at t moving with v is after a step: advanced by v
Advanced(t, v) ==
  IF InReach(Vec(t.x + v.x, t.y + v.y)) THEN Vec(t.x + v.x, t.y + v.y) ELSE t

\* what world.step() can make of one body: a fixed body stays; a kinematic body
\* keeps its velocity; forces and contacts give a dynamic body any velocity
stepBody(b) ==
  CASE b.type = "fixed" -> {b}
    [] b.type = "kinematicVelocityBased" ->
         {[b EXCEPT !.translation = Advanced(b.translation, b.linvel)]}
    [] b.type = "dynamic" ->
         {[b EXCEPT !.linvel = v, !.translation = Advanced(b.translation, v)] :
            v \in VelVecs}

\* world.step(): the worlds one step can lead to
step(w) ==
  LET H == DOMAIN w.bodies
      outcomes == UNION {stepBody(w.bodies[h]) : h \in H}
  IN  {[w EXCEPT !.bodies = nb] :
         nb \in {f \in [H -> outcomes] : \A h \in H : f[h] \in stepBody(w.bodies[h])}}


\* opts?.physicsStep: a number, or not given
StepOption(n) == [given |-> TRUE, value |-> n]
NoStepOption == [given |-> FALSE, value |-> 0]
StepOptions == {StepOption(n) : n \in {-1, 0, 1, 2, 3}} \cup {NoStepOption}

\* const PHYSICS_STEP = opts?.physicsStep ?? 5
DefaultStep == 5
physicsStepOf(opt) == IF opt.given THEN opt.value ELSE DefaultStep

Gravities == {0, 20, 200}

\* load()
load ==
  /\ pc = "idle"
  /\ ~world.defined
  /\ world' = NewWorld
  /\ UNCHANGED <<xf, bodyVars, frameDts, PHYSICS_STEP, acc, updateCount, pc, hostGravity, elapsed,
                 lostFrames>>

\* k.setGravity(g), by the game between frames
setGravity ==
  /\ pc = "idle"
  /\ \E g \in Gravities : hostGravity' = g
  /\ UNCHANGED <<xf, bodyVars, frameDts, world, PHYSICS_STEP, acc, updateCount, pc, elapsed, lostFrames>>

\* a slip in the callback: the test of `world` left out
onUpdateBeginUnguarded ==
  /\ pc = "idle"
  /\ \E dt \in frameDts :
       /\ elapsed + dt <= MaxElapsed
       /\ elapsed' = elapsed + dt
       /\ lostFrames' = (lostFrames \/ ~world.defined)
       /\ acc' = acc + dt
       /\ world' = [world EXCEPT !.gravity.y = hostGravity]
       /\ pc' = "loop"
  /\ UNCHANGED <<xf, bodyVars, frameDts, PHYSICS_STEP, updateCount, hostGravity>>

\* a slip in the callback: the world keeps the gravity it was created with
onUpdateBeginKeepsGravity ==
  /\ pc = "idle"
  /\ \E dt \in frameDts :
       /\ elapsed + dt <= MaxElapsed
       /\ elapsed' = elapsed + dt
       /\ IF ~world.defined
            THEN /\ lostFrames' = TRUE
                 /\ UNCHANGED <<world, acc, pc>>
            ELSE /\ acc' = acc + dt
                 /\ pc' = "loop"
                 /\ UNCHANGED <<world, lostFrames>>
  /\ UNCHANGED <<xf, bodyVars, frameDts, PHYSICS_STEP, updateCount, hostGravity>>

\* the callback up to its loop; dt is k.dt() * 1000
onUpdateBegin ==
  /\ pc = "idle"
  /\ \E dt \in frameDts :
       /\ elapsed + dt <= MaxElapsed
       /\ elapsed' = elapsed + dt
       /\ IF ~world.defined
            THEN /\ lostFrames' = TRUE
                 /\ UNCHANGED <<world, acc, pc>>
            ELSE /\ acc' = acc + dt
                 /\ world' = [world EXCEPT !.gravity.y = hostGravity]
                 /\ pc' = "loop"
                 /\ UNCHANGED lostFrames
  /\ UNCHANGED <<xf, bodyVars, frameDts, PHYSICS_STEP, updateCount, hostGravity>>

\* one iteration of while (acc >= PHYSICS_STEP)
onUpdateStep ==
  /\ pc = "loop"
  /\ acc >= PHYSICS_STEP
  /\ updateCount < MaxUpdates
  /\ world' \in step(world)
  /\ acc' = acc - PHYSICS_STEP
  /\ updateCount' = updateCount + 1
  /\ last' = [NoLast EXCEPT !.op = "step"]
  /\ UNCHANGED <<xf, gobj, comp, view, jcomp, frameDts, PHYSICS_STEP, pc, hostGravity,
                 elapsed, lostFrames>>

\* a slip in the loop: `if` for `while`, the callback returns after at most one step
onUpdateEndAfterOneStep ==
  /\ pc = "loop"
  /\ pc' = "idle"
  /\ UNCHANGED <<xf, bodyVars, frameDts, world, PHYSICS_STEP, acc, updateCount, hostGravity, elapsed,
                 lostFrames>>

\* the loop's exit: the callback returns
onUpdateEnd ==
  /\ pc = "loop"
  /\ ~(acc >= PHYSICS_STEP)
  /\ pc' = "idle"
  /\ UNCHANGED <<xf, bodyVars, frameDts, world, PHYSICS_STEP, acc, updateCount, hostGravity, elapsed,
                 lostFrames>>

----------------------------------------------------------------------------
(* The game's calls on a body adapter.  Each runs between two onUpdate callbacks *)

NoView == [held |-> FALSE, body |-> Null, target |-> Vec(0, 0)]

\* the linear velocity the body of adapter o reports, (0, 0) when it has none
Linvel(S, o) ==
  IF S.comp[o].rbody \in DOMAIN S.world.bodies
    THEN S.world.bodies[S.comp[o].rbody].linvel ELSE Vec(0, 0)

\* the record of an operation: what ran, on which object, what it threw, and what
\* the world and the body were before it
Did(op, o, threw, arg, ret) ==
  [op |-> op, o |-> o, threw |-> threw, touched |-> comp[o].touched,
   sets |-> WorldSets(world), linvel |-> Linvel(Cur, o), arg |-> arg, ret |-> ret,
   translation |-> Vec(0, 0), num |-> 0]

\* the same, for an operation whose effect does not depend on the body's velocity
DidPlain(op, o, threw, arg) ==
  [Did(op, o, threw, arg, FALSE) EXCEPT !.linvel = Vec(0, 0)]

Commit(S) ==
  /\ world' = S.world
  /\ comp' = S.comp
  /\ gobj' = S.gobj

\* an accessor or hook of adapter o has been entered
Touch(S, o) == [S EXCEPT !.comp[o].touched = TRUE]

Alive(o) == pc = "idle" /\ comp[o].state = "alive"

restOfStepper == <<PHYSICS_STEP, acc, updateCount, pc, hostGravity, frameDts, elapsed,
                   lostFrames>>

\* what an operation of a body adapter leaves alone
restOfBody == <<xf, jcomp, restOfStepper>>

\* k.add([shape, k.pos(..), k.anchor(..), k.physics.body(opts)])
Add(o, obj, opts) ==
  /\ pc = "idle"
  /\ comp[o].state = "none"
  /\ gobj' = [gobj EXCEPT ![o] = obj]
  /\ comp' = [comp EXCEPT ![o] = rapierBody(opts)]
  /\ last' = DidPlain("add", o, "", Vec(0, 0))
  /\ UNCHANGED <<world, view, restOfBody>>

\* obj.getRigidBody()
GetRigidBody(o) ==
  /\ Alive(o)
  /\ LET E == ensureBody(Touch(Cur, o), o)
     IN  /\ Commit(E)
         /\ last' = DidPlain("getRigidBody", o, E.threw, Vec(0, 0))
  /\ UNCHANGED <<view, restOfBody>>

\* obj.velocity: the proxy over a copy of the body's linear velocity
GetVelocity(o) ==
  /\ Alive(o)
  /\ LET E == ensureBody(Touch(Cur, o), o)
     IN  /\ Commit(E)
         /\ view' = IF E.threw # "" THEN view
                    ELSE [held |-> TRUE, body |-> E.comp[o].rbody,
                          target |-> Linvel(E, o)]
         /\ last' = DidPlain("velocity.get", o, E.threw, Vec(0, 0))
  /\ UNCHANGED restOfBody

\* a slip in the set trap: the velocity rebuilt from the proxy's copy, not read anew
ViewSetFromCopy(p, newValue) ==
  /\ pc = "idle"
  /\ view.held
  /\ LET o == CHOOSE i \in Objs : comp[i].rbody = view.body
         curr == [view.target EXCEPT ![p] = newValue]
     IN  IF view.body \in DOMAIN world.bodies
           THEN /\ world' = [world EXCEPT !.bodies[view.body].linvel = curr]
                /\ view' = [view EXCEPT !.target[p] = newValue]
                /\ last' = Did("velocity." \o p, o, "", Vec(newValue, newValue), FALSE)
           ELSE /\ last' = Did("velocity." \o p, o, "EngineFault",
                               Vec(newValue, newValue), FALSE)
                /\ UNCHANGED <<world, view>>
  /\ UNCHANGED <<gobj, comp, restOfBody>>

\* the proxy's set trap for p = "x" or "y": curr = _body.linvel(); curr[p] = newValue;
\* _body.setLinvel(curr, true); target[p] = newValue.  A body that has left the
\* world has no velocity to read: the engine faults
ViewSet(p, newValue) ==
  /\ pc = "idle"
  /\ view.held
  /\ LET o == CHOOSE i \in Objs : comp[i].rbody = view.body
         curr == [world.bodies[view.body].linvel EXCEPT ![p] = newValue]
     IN  IF view.body \in DOMAIN world.bodies
           THEN /\ world' = [world EXCEPT !.bodies[view.body].linvel = curr]
                /\ view' = [view EXCEPT !.target[p] = newValue]
                /\ last' = Did("velocity." \o p, o, "", Vec(newValue, newValue), FALSE)
           ELSE /\ last' = Did("velocity." \o p, o, "EngineFault",
                               Vec(newValue, newValue), FALSE)
                /\ UNCHANGED <<world, view>>
  /\ UNCHANGED <<gobj, comp, restOfBody>>

\* obj.velocity = vel
SetVelocity(o, vel) ==
  /\ Alive(o)
  /\ LET E == ensureBody(Touch(Cur, o), o)
     IN  /\ Commit(IF E.threw # "" THEN E
                   ELSE [E EXCEPT !.world.bodies[E.comp[o].rbody].linvel = vel])
         /\ last' = DidPlain("velocity.set", o, E.threw, vel)
  /\ UNCHANGED <<view, restOfBody>>

\* ensureBody, then the first call on the body: the engine faults if it is gone
liveBody(S, o) ==
  LET E == ensureBody(S, o)
  IN  IF E.threw = "" /\ Gone(E, o) THEN Throw(E, "EngineFault") ELSE E

\* a slip in translate: the vector added to the translation, as a movement
TranslateAccumulating(o, vec) ==
  /\ Alive(o)
  /\ LET E == liveBody(Touch(Cur, o), o)
     IN  /\ Commit(IF E.threw # "" THEN E
                   ELSE [E EXCEPT !.world.bodies[E.comp[o].rbody].translation =
                                     Vec(@.x + vec.x, @.y + vec.y)])
         /\ last' = DidPlain("translate", o, E.threw, vec)
  /\ UNCHANGED <<view, restOfBody>>

\* obj.translate(vec)
Translate(o, vec) ==
  /\ Alive(o)
  /\ LET E == liveBody(Touch(Cur, o), o)
     IN  /\ Commit(IF E.threw # "" THEN E
                   ELSE [E EXCEPT !.world.bodies[E.comp[o].rbody].translation = vec])
         /\ last' = DidPlain("translate", o, E.threw, vec)
  /\ UNCHANGED <<view, restOfBody>>

\* the translation the body of adapter o reports, (0, 0) when it has none
Translation(S, o) ==
  IF Gone(S, o) THEN Vec(0, 0) ELSE S.world.bodies[S.comp[o].rbody].translation

\* obj.translateX(x): new R.Vector2(x, rbody.translation().y)
TranslateX(o, x) ==
  /\ Alive(o)
  /\ LET E == liveBody(Touch(Cur, o), o)
     IN  /\ Commit(IF E.threw # "" THEN E
                   ELSE [E EXCEPT !.world.bodies[E.comp[o].rbody].translation =
                                     Vec(x, @.y)])
         /\ last' = [DidPlain("translateX", o, E.threw, Vec(x, 0)) EXCEPT
                       !.translation = Translation(E, o)]
  /\ UNCHANGED <<view, restOfBody>>

\* obj.translateY(y): new R.Vector2(rbody.translation().x, y)
TranslateY(o, y) ==
  /\ Alive(o)
  /\ LET E == liveBody(Touch(Cur, o), o)
     IN  /\ Commit(IF E.threw # "" THEN E
                   ELSE [E EXCEPT !.world.bodies[E.comp[o].rbody].translation =
                                     Vec(@.x, y)])
         /\ last' = [DidPlain("translateY", o, E.threw, Vec(0, y)) EXCEPT
                       !.translation = Translation(E, o)]
  /\ UNCHANGED <<view, restOfBody>>

\* obj.bounciness: rbody.collider(0).restitution(); the body's one collider is the
\* adapter's, and a body with no collider has no collider 0 to ask
GetBounciness(o) ==
  /\ Alive(o)
  /\ \E E \in {liveBody(Touch(Cur, o), o)} :
       \E c \in {E.comp[o].collider} :
         \E fault \in {IF E.threw = "" /\ c \notin DOMAIN E.world.colliders
                         THEN "EngineFault" ELSE E.threw} :
           /\ Commit(E)
           /\ last' = [DidPlain("bounciness.get", o, fault, Vec(0, 0)) EXCEPT
                         !.num = IF fault # "" THEN 0
                                 ELSE E.world.colliders[c].restitution]
  /\ UNCHANGED <<view, restOfBody>>

\* the game sets obj.anchor, which both transforms read at each call
SetAnchor(o, a) ==
  /\ Alive(o)
  /\ gobj[o].anchor # a
  /\ gobj' = [gobj EXCEPT ![o].anchor = a]
  /\ last' = DidPlain("anchor.set", o, "", Vec(0, 0))
  /\ UNCHANGED <<world, comp, view, restOfBody>>

\* the game resizes a rectangle: obj.width = w, obj.height = h, which
\* obj.renderArea().bbox() reports at each call
SetSize(o, w, h) ==
  /\ Alive(o)
  /\ Is(gobj[o], "rect")
  /\ <<gobj[o].width, gobj[o].height>> # <<w, h>>
  /\ gobj' = [gobj EXCEPT ![o].width = w, ![o].height = h]
  /\ last' = DidPlain("size.set", o, "", Vec(w, h))
  /\ UNCHANGED <<world, comp, view, restOfBody>>

\* the game adds a destroyed object to the scene again: the component, with the
\* rbody and collider of its closure, has its hooks run again
Readd(o) ==
  /\ pc = "idle"
  /\ comp[o].state = "destroyed"
  /\ comp' = [comp EXCEPT ![o].state = "alive"]
  /\ last' = DidPlain("readd", o, "", Vec(0, 0))
  /\ UNCHANGED <<world, gobj, view, restOfBody>>

\* the update hook, run by the host once per frame
Update(o) ==
  /\ Alive(o)
  /\ LET U == update(Touch(Cur, o), o)
     IN  /\ Commit(U)
         /\ last' = DidPlain("update", o, U.threw, Vec(0, 0))
  /\ UNCHANGED <<view, restOfBody>>

\* the destroy hook, run when the game destroys the object.  Removing a body that
\* has already left the world is outside the engine's interface: it ignores the
\* stale handle, or faults on it
Destroy(o) ==
  /\ Alive(o)
  /\ LET D == destroy(Cur, o)
         stale == comp[o].rbody # Null /\ Gone(Cur, o)
     IN  /\ Commit([D EXCEPT !.comp[o].state = "destroyed"])
         /\ \E fault \in (IF stale THEN {"", "EngineFault"} ELSE {""}) :
              last' = DidPlain("destroy", o, fault, Vec(0, 0))
  /\ UNCHANGED <<view, restOfBody>>

\* obj.isGrounded()
IsGrounded(o) ==
  /\ Alive(o)
  /\ LET G == isGrounded(Touch(Cur, o), o)
     IN  /\ Commit(G.state)
         /\ last' = [DidPlain("isGrounded", o, G.state.threw, Vec(0, 0)) EXCEPT
                       !.ret = G.ret]
  /\ UNCHANGED <<view, restOfBody>>

----------------------------------------------------------------------------
(* The joint adapter: rapierJoint *)

JointIds == {1, 2}

NoJointOptions ==
  [type |-> "", anchor1 |-> NoVec, anchor2 |-> NoVec, frame1 |-> None, frame2 |-> None,
   axis |-> ZERO, length |-> 0, restLength |-> 0, stiffness |-> 0, damping |-> 0]

NoJoint == [state |-> "none", joint |-> Null, options |-> NoJointOptions, before |-> {}]

\* the record of a call on joint component j
DidJoint(op, j, threw) ==
  [NoLast EXCEPT !.op = op, !.o = j, !.threw = threw, !.sets = WorldSets(world)]

\* k.add([k.physics.joint({joint: jo, parent1: p1, parent2: p2})]): the arguments of
\* world.createImpulseJoint are evaluated in order, the two getRigidBody() calls
\* after the descriptor; an error thrown on the way leaves no component
AddJoint(j, jo, p1, p2) ==
  /\ pc = "idle"
  /\ jcomp[j].state = "none"
  /\ comp[p1].state = "alive" /\ comp[p2].state = "alive"
  /\ LET data == jointData(jo)
         E1 == ensureBody(Touch(Cur, p1), p1)
         E2 == ensureBody(Touch(E1, p2), p2)
         failed(S) ==
           /\ Commit(S)
           /\ jcomp' = [jcomp EXCEPT ![j] = [NoJoint EXCEPT !.state = "failed",
                                                           !.options = jo,
                                                           !.before = DOMAIN world.joints]]
           /\ last' = DidJoint("joint.add", j, S.threw)
     IN  IF E1.threw # "" THEN failed(E1)
         ELSE IF E2.threw # "" THEN failed(E2)
         ELSE \E r \in createImpulseJoint(E2.world, data, E2.comp[p1].rbody,
                                          E2.comp[p2].rbody) :
                IF r.threw # "" THEN failed([E2 EXCEPT !.world = r.world,
                                                       !.threw = r.threw])
                ELSE /\ Commit([E2 EXCEPT !.world = r.world])
                     /\ jcomp' = [jcomp EXCEPT ![j] = [state |-> "alive",
                                                       joint |-> r.joint,
                                                       options |-> jo,
                                                       before |-> DOMAIN world.joints]]
                     /\ last' = DidJoint("joint.add", j, "")
  /\ UNCHANGED <<xf, view, restOfStepper>>

\* the destroy hook of the joint component
DestroyJoint(j) ==
  /\ pc = "idle"
  /\ jcomp[j].state = "alive"
  /\ world' = removeImpulseJoint(world, jcomp[j].joint)
  /\ jcomp' = [jcomp EXCEPT ![j].state = "destroyed"]
  /\ last' = DidJoint("joint.destroy", j, "")
  /\ UNCHANGED <<xf, gobj, comp, view, restOfStepper>>

----------------------------------------------------------------------------
(* Specifications *)

StepperInit(loaded, dts) ==
  /\ frameDts = dts
  /\ world = IF loaded THEN NewWorld ELSE UndefinedWorld
  /\ PHYSICS_STEP \in {physicsStepOf(opt) : opt \in StepOptions}
  /\ acc = 0
  /\ updateCount = 0
  /\ pc = "idle"
  /\ hostGravity = 0
  /\ elapsed = 0
  /\ lostFrames = FALSE

BodyInit ==
  /\ gobj = [o \in Objs |-> NoObj]
  /\ comp = [o \in Objs |-> NoComp]
  /\ view = NoView
  /\ jcomp = [j \in JointIds |-> NoJoint]
  /\ last = NoLast

\* the transform alone, over every input object
XformInit ==
  /\ BodyInit
  /\ xf \in {[XfIdle EXCEPT !.stage = "input", !.obj = o] : o \in XformObjs}
  /\ StepperInit(TRUE, {DefaultStep})
  /\ PHYSICS_STEP = DefaultStep

XformNext == XToCenter \/ XToAnchor

SpecXform == XformInit /\ [][XformNext]_vars

\* the stepper alone; load() may or may not have run before the plugin is set up
StepperSpecInit ==
  /\ BodyInit
  /\ xf = XfIdle
  /\ \E loaded \in BOOLEAN : StepperInit(loaded, 0..MaxDt)

StepperNext == load \/ setGravity \/ onUpdateBegin \/ onUpdateStep \/ onUpdateEnd

SpecStepper == StepperSpecInit /\ [][StepperNext]_vars

\* objects and options of the games of the body specification
Points == {Vec(1, -MaxCoord)}
BodyObjs ==
  {RectObj(2, 2 * MaxSize, Vec(0, 0), a) : a \in {NoAnchor, NamedAnchor("center")}}
    \cup {CircleObj(2, Vec(1, -MaxCoord), NamedAnchor("botright"))}
    \cup {PolygonObj(pts, Vec(0, 0), NoAnchor) : pts \in {Triangle, Collinear}}
    \cup {ShapelessObj(Vec(1, -MaxCoord), NoAnchor)}
BodyOpts ==
  {DefaultOpts,
   [DefaultOpts EXCEPT !.isStatic = TRUE],
   [DefaultOpts EXCEPT !.kinematic = TRUE, !.mass = Some(2), !.gravityScale = Some(0)]}

\* one object with a body, its velocity view, and the stepper at one step a frame
BodySpecInit ==
  /\ BodyInit
  /\ xf = XfIdle
  /\ StepperInit(TRUE, {DefaultStep})
  /\ PHYSICS_STEP = DefaultStep

BodyNext ==
  \/ \E obj \in BodyObjs, opts \in BodyOpts : Add(1, obj, opts)
  \/ GetRigidBody(1)
  \/ GetVelocity(1)
  \/ \E p \in {"x", "y"}, n \in Vels : ViewSet(p, n)
  \/ \E v \in VelVecs : SetVelocity(1, v)
  \/ \E v \in Points : Translate(1, v)
  \/ Update(1)
  \/ Destroy(1)
  \/ onUpdateBegin
  \/ onUpdateStep
  \/ onUpdateEnd

SpecBody == BodySpecInit /\ [][BodyNext]_vars

\* the games of the joint specification: two objects, joints of every kind between
\* them, and one joint of a kind the options do not know
JointObjs ==
  {CircleObj(2, Vec(0, 0), NamedAnchor("center")),
   ShapelessObj(Vec(1, -MaxCoord), NoAnchor),
   PolygonObj(Collinear, Vec(0, 0), NoAnchor)}

JointOptions ==
  {[NoJointOptions EXCEPT !.type = "fixed", !.frame1 = Some(1)],
   [NoJointOptions EXCEPT !.type = "prismatic", !.axis = Vec(1, 0)],
   [NoJointOptions EXCEPT !.type = "revolute", !.anchor1 = SomeVec(Vec(1, 1))],
   [NoJointOptions EXCEPT !.type = "rope", !.length = 2],
   [NoJointOptions EXCEPT !.type = "spring", !.restLength = 2, !.stiffness = 20,
                          !.damping = 2],
   [NoJointOptions EXCEPT !.type = "weld"]}

JointSpecInit ==
  /\ BodyInit
  /\ xf = XfIdle
  /\ StepperInit(TRUE, {DefaultStep})
  /\ PHYSICS_STEP = DefaultStep

JointNext ==
  \/ \E o \in Objs, obj \in JointObjs : Add(o, obj, DefaultOpts)
  \/ \E o \in Objs : GetRigidBody(o)
  \/ \E o \in Objs : Destroy(o)
  \/ \E j \in JointIds, jo \in JointOptions, p1, p2 \in Objs :
       p1 # p2 /\ AddJoint(j, jo, p1, p2)
  \/ \E j \in JointIds : DestroyJoint(j)

SpecJoint == JointSpecInit /\ [][JointNext]_vars

\* the games of the ground specification: object 1 a static surface with its top
\* edge at y = 0, object 2 a dynamic rectangle placed on it or above it
Surfaces == {RectObj(w, 4, Vec(-(w \div 2), 0), NoAnchor) : w \in {4, 40}}
Players ==
  {RectObj(w, h, Vec(0, -(h \div 2)), NamedAnchor("center")) :
     w \in {2, 20}, h \in {2, 20, 200}}
Gaps == {0, 1, 2, 100}

GroundSpecInit == JointSpecInit

GroundNext ==
  \/ \E obj \in Surfaces : Add(1, obj, [DefaultOpts EXCEPT !.isStatic = TRUE])
  \/ \E obj \in Players : Add(2, obj, DefaultOpts)
  \/ GetRigidBody(1)
  \/ \E gap \in Gaps : Translate(2, Vec(0, -(gobj[2].height \div 2) - gap))
  \/ IsGrounded(2)

SpecGround == GroundSpecInit /\ [][GroundNext]_vars

\* the games of the object specification: one object that the game moves, turns,
\* re-anchors and resizes between the calls on its adapter; no frame runs
Turned(obj, deg) == [obj EXCEPT !.tags = @ \cup {"rotate"}, !.angle = Angle(deg)]

ObjectObjs ==
  {RectObj(2, 2 * MaxSize, Vec(0, 0), NoAnchor),
   Turned(RectObj(2, 2 * MaxSize, Vec(1, -MaxCoord), NamedAnchor("center")), 90),
   CircleObj(2, Vec(1, -MaxCoord), NamedAnchor("botright")),
   PolygonObj(Triangle, Vec(0, 0), NoAnchor),
   Turned(ShapelessObj(Vec(1, -MaxCoord), NoAnchor), 0)}

ObjectOpts ==
  {DefaultOpts,
   [DefaultOpts EXCEPT !.mass = Some(2), !.gravityScale = Some(0),
                       !.bounciness = Some(1)]}

ObjectSpecInit == JointSpecInit

ObjectNext ==
  \/ \E obj \in ObjectObjs, opts \in ObjectOpts : Add(1, obj, opts)
  \/ GetRigidBody(1)
  \/ GetBounciness(1)
  \/ \E v \in Points : Translate(1, v)
  \/ TranslateX(1, -1)
  \/ TranslateY(1, MaxCoord)
  \/ \E a \in {NoAnchor, NamedAnchor("center"), NamedAnchor("botright")} : SetAnchor(1, a)
  \/ \E h \in {2, 2 * MaxSize} : SetSize(1, 2, h)
  \/ Update(1)

SpecObject == ObjectSpecInit /\ [][ObjectNext]_vars

\* the games of the destroy specification: an object destroyed, added to the scene
\* again, used and destroyed again, next to a second object that stays
DestroyObjs ==
  {RectObj(2, 2 * MaxSize, Vec(0, 0), NoAnchor),
   CircleObj(2, Vec(1, -MaxCoord), NamedAnchor("botright")),
   ShapelessObj(Vec(1, -MaxCoord), NoAnchor)}

DestroySpecInit == JointSpecInit

DestroyNext ==
  \/ \E o \in Objs, obj \in DestroyObjs : Add(o, obj, DefaultOpts)
  \/ \E o \in Objs : GetRigidBody(o)
  \/ \E v \in Points : Translate(1, v)
  \/ Update(1)
  \/ Destroy(1)
  \/ Readd(1)

SpecDestroy == DestroySpecInit /\ [][DestroyNext]_vars

----------------------------------------------------------------------------
(* Claims about the stepper (SpecStepper) *)

\* C1: accumulator conservation.  With the world defined before the first frame and
\* a positive step interval, at every frame boundary
\*   updateCount * PHYSICS_STEP <= elapsed < updateCount * PHYSICS_STEP + PHYSICS_STEP,
\* and the carried accumulator is the difference, in [0, PHYSICS_STEP).
AccumulatorConservation ==
  (pc = "idle" /\ world.defined /\ ~lostFrames /\ PHYSICS_STEP > 0) =>
    /\ updateCount * PHYSICS_STEP <= elapsed
    /\ elapsed < updateCount * PHYSICS_STEP + PHYSICS_STEP
    /\ acc = elapsed - updateCount * PHYSICS_STEP
    /\ 0 <= acc /\ acc < PHYSICS_STEP

\* a frame boundary after several steps with a remainder carried forward
AccumulatorCarries ==
  /\ pc = "idle" /\ world.defined /\ ~lostFrames
  /\ PHYSICS_STEP = DefaultStep
  /\ updateCount >= 2
  /\ acc > 0
  /\ elapsed = updateCount * PHYSICS_STEP + acc

----------------------------------------------------------------------------
(* Claims about the coordinate transform (SpecXform) *)

XfSize == IF IsVisible(xf.obj) THEN renderAreaBBox(xf.obj) ELSE ZeroRect

\* C2: round trip.  For every non-polygon object (any position, any bounding box,
\* the zero box of a shapeless object included, any anchor or none),
\* toAnchor(toCenter(p)) = p.
RoundTrip ==
  (xf.stage = "returned" /\ ~Is(xf.obj, "polygon")) => xf.back = xf.obj.pos

\* a round trip through a center that differs from the position in both coordinates
RoundTripMoved ==
  /\ xf.stage = "returned" /\ ~Is(xf.obj, "polygon")
  /\ xf.center.x # xf.obj.pos.x /\ xf.center.y # xf.obj.pos.y
  /\ xf.back = xf.obj.pos

\* C3: for a polygon object both directions are the identity: toCenter returns the
\* position and toAnchor returns the center point, so the round trip holds too.
PolygonIdentity ==
  (Is(xf.obj, "polygon") /\ xf.stage \in {"centered", "returned"}) =>
    /\ xf.center = xf.obj.pos
    /\ xf.stage = "returned" => (xf.back = xf.center /\ xf.back = xf.obj.pos)

\* the delta of the claim's table, doubled: left +0.5, right -0.5, top +0.5, bot -0.5
TableDelta(name) ==
  << IF name \in {"left", "topleft", "botleft"} THEN 1
     ELSE IF name \in {"right", "topright", "botright"} THEN -1 ELSE 0,
     IF name \in {"top", "topleft", "topright"} THEN 1
     ELSE IF name \in {"bot", "botleft", "botright"} THEN -1 ELSE 0 >>

ClaimedDelta(obj) ==
  CASE obj.anchor.tag = "string" -> TableDelta(obj.anchor.name)
    [] obj.anchor.tag = "vec2" -> <<1 - obj.anchor.x, 1 - obj.anchor.y>>
    [] obj.anchor.tag = "undefined" ->
         IF Is(obj, "circle") THEN TableDelta("center") ELSE TableDelta("topleft")

\* C10: anchor table.  The offset toCenter adds is the table's delta times the
\* bounding-box size for each named anchor (every component of the delta within
\* [-0.5, 0.5]), (0.5 - ax, 0.5 - ay) times the size for a custom point, and with
\* no anchor set the delta of "center" for circles and of "topleft" for the rest.
AnchorTable ==
  xf.stage \in {"centered", "returned"} =>
    /\ 2 * (xf.center.x - xf.obj.pos.x) = XfSize.width * ClaimedDelta(xf.obj)[1]
    /\ 2 * (xf.center.y - xf.obj.pos.y) = XfSize.height * ClaimedDelta(xf.obj)[2]
    /\ xf.obj.anchor.tag = "string" =>
         \A i \in 1..2 : anchorToCenter(xf.obj.anchor.name)[i] \in -1..1

\* toCenter applied under the anchor "bot" to a box of non-zero height
AnchorTableBot ==
  /\ xf.stage = "centered"
  /\ xf.obj.anchor = NamedAnchor("bot")
  /\ XfSize.height > 0
  /\ xf.center.y < xf.obj.pos.y

----------------------------------------------------------------------------
(* Claims about the body adapter (SpecBody) *)

\* C4: lazy creation.  Constructing a body adapter, and destroying it with no
\* accessor, mutator or update hook run on it before, creates and removes nothing:
\* the world's bodies, colliders and joints and its count of handles given out are
\* what they were before the call.
LazyCreation ==
  (last.op \in {"add", "destroy"} /\ ~last.touched) =>
    /\ WorldSets(world) = last.sets
    /\ comp[last.o].rbody = Null /\ comp[last.o].collider = Null

\* an adapter of a visible object destroyed untouched
DestroyedUntouched ==
  /\ last.op = "destroy" /\ ~last.touched
  /\ comp[last.o].state = "destroyed"
  /\ IsVisible(gobj[last.o])

\* C5: velocity live view.  A write of one component through the view sets that
\* component of the body's linear velocity to the value written and leaves the other
\* at what the body reported at the moment of the write.
VelocityLiveView ==
  (last.op \in {"velocity.x", "velocity.y"} /\ last.threw = "") =>
    LET now == world.bodies[view.body].linvel
    IN  IF last.op = "velocity.y"
          THEN now.y = last.arg.y /\ now.x = last.linvel.x
          ELSE now.x = last.arg.x /\ now.y = last.linvel.y

\* a write of Y through a view whose copy of X is out of date
VelocityWrittenThroughStaleView ==
  /\ last.op = "velocity.y" /\ last.threw = ""
  /\ view.target.x # last.linvel.x
  /\ last.arg.y # last.linvel.y
  /\ world.bodies[view.body].linvel = Vec(last.linvel.x, last.arg.y)

\* the operations that begin with ensureBody
EnsuringOps == {"getRigidBody", "velocity.get", "velocity.set", "translate", "update"}

\* the colliders attached to the body of adapter o
CollidersOf(o) == {c \in DOMAIN world.colliders : world.colliders[c].parent = comp[o].rbody}

\* C9: collider shape mapping.  Once an adapter has its body: a rectangle(w, h) has
\* exactly one collider, a box of half-extents (w/2, h/2); a circle(r) exactly one, a
\* ball of radius r; a polygon a convex hull of its vertex list, and when no hull
\* exists the creating call threw and there is no collider; a shapeless object has
\* a body and no collider.
ColliderShapeMapping ==
  \A o \in Objs :
    (comp[o].state = "alive" /\ comp[o].rbody # Null) =>
      LET obj == gobj[o]
          shapes == {world.colliders[c].shape : c \in CollidersOf(o)}
          created == last.o = o /\ ~last.touched /\ last.op \in EnsuringOps
      IN  /\ comp[o].rbody \in DOMAIN world.bodies
          /\ Cardinality(CollidersOf(o)) <= 1
          /\ CollidersOf(o) = {comp[o].collider} \ {Null}
          /\ Is(obj, "rect") =>
               /\ shapes = {[NullDesc EXCEPT !.kind = "cuboid", !.hx = obj.width \div 2,
                                             !.hy = obj.height \div 2]}
               /\ 2 * world.colliders[comp[o].collider].shape.hx = obj.width
               /\ 2 * world.colliders[comp[o].collider].shape.hy = obj.height
          /\ Is(obj, "circle") =>
               shapes = {[NullDesc EXCEPT !.kind = "ball", !.radius = obj.radius]}
          /\ (Is(obj, "polygon") /\ obj.pts # Collinear) =>
               /\ Cardinality(shapes) = 1
               /\ \A sh \in shapes :
                    /\ sh.kind = "convexHull"
                    /\ Len(sh.points) = 2 * Len(obj.pts)
                    /\ \A i \in DOMAIN obj.pts :
                         sh.points[2*i - 1] = obj.pts[i].x /\ sh.points[2*i] = obj.pts[i].y
          /\ (Is(obj, "polygon") /\ obj.pts = Collinear) =>
               /\ shapes = {}
               /\ created => last.threw = "polygon is not convex"
          /\ ~IsVisible(obj) => shapes = {}
          /\ (created /\ ~(Is(obj, "polygon") /\ obj.pts = Collinear)) => last.threw = ""

\* a rectangle whose body was just created, with its box
RectangleGotItsBox ==
  /\ comp[1].state = "alive" /\ comp[1].rbody # Null /\ comp[1].collider # Null
  /\ Is(gobj[1], "rect") /\ gobj[1].height = 2 * MaxSize
  /\ last.o = 1 /\ ~last.touched /\ last.op = "getRigidBody"
  /\ world.colliders[comp[1].collider].shape.hy = MaxSize

----------------------------------------------------------------------------
(* Claims about isGrounded (SpecGround) *)

\* the bounding box, the body and the gap below its bottom edge of the rectangle
GBox == renderAreaBBox(gobj[2])
GBody == world.bodies[comp[2].rbody]
GGap == -(GBox.height \div 2) - GBody.translation.y

\* C6: isGrounded() casts a ray from the body's translation straight down, reaching
\* height/2 + 1, and returns true iff it meets a collider of another body within
\* that distance; so a dynamic rectangle of any size resting on the static surface
\* with zero gap is grounded, and raised 100 above it is not.
GroundedStraightDown ==
  (last.op = "isGrounded" /\ last.o = 2 /\ last.threw = "") =>
    /\ last.ret = castRay(world, GBody.translation, Vec(0, GBox.height \div 2 + 1), 1,
                          comp[2].rbody)
    /\ (comp[1].rbody # Null /\ GGap = 0) => last.ret
    /\ GGap = 100 => ~last.ret

----------------------------------------------------------------------------
(* Claims about the joint adapter (SpecJoint) *)

\* C7: joint lifecycle.  For each joint kind, creating a joint adapter adds exactly
\* one joint to the world, and destroying the adapter removes that joint and no
\* other: with the other joints as they were before the creation, the world's
\* joints, and their number, are again what they were before it.
JointLifecycle ==
  /\ (last.op = "joint.add" /\ last.threw = "") =>
       /\ jcomp[last.o].joint \notin last.sets[3]
       /\ DOMAIN world.joints = last.sets[3] \cup {jcomp[last.o].joint}
       /\ Cardinality(DOMAIN world.joints) = Cardinality(last.sets[3]) + 1
  /\ last.op = "joint.destroy" =>
       /\ DOMAIN world.joints = last.sets[3] \ {jcomp[last.o].joint}
       /\ last.sets[3] \ {jcomp[last.o].joint} = jcomp[last.o].before =>
            /\ DOMAIN world.joints = jcomp[last.o].before
            /\ Cardinality(DOMAIN world.joints) = Cardinality(jcomp[last.o].before)

\* a spring joint destroyed while another joint stays in the world
SpringJointRoundTrip ==
  /\ last.op = "joint.destroy"
  /\ jcomp[last.o].options.type = "spring"
  /\ jcomp[last.o].joint \in last.sets[3]
  /\ jcomp[last.o].before # {}
  /\ DOMAIN world.joints = jcomp[last.o].before

\* the errors the adapters' own code raises
AdapterErrors == {"polygon is not convex", "unreachable"}

\* C8: creating a joint of an unrecognized kind fails with an error raised by the
\* joint adapter's creation call, and adds no joint to the world.
UnknownJointKindRejected ==
  (last.op = "joint.add" /\ jcomp[last.o].options.type \notin JointKinds) =>
    /\ last.threw \in AdapterErrors
    /\ DOMAIN world.joints = last.sets[3]

----------------------------------------------------------------------------
(* Further claims about the stepper (SpecStepper) *)

\* C11: while the world has not been initialized, every frame callback is a no-op:
\* the accumulator, the step counter and the world are left unchanged and the
\* callback returns at once, for any frame delta.
NoWorldNoOp ==
  [][(~world.defined /\ (elapsed' # elapsed \/ lostFrames' # lostFrames)) =>
       (acc' = acc /\ updateCount' = updateCount /\ world' = world /\ pc' = "idle")]_vars

\* frames of non-zero length have run on the undefined world
NoWorldFrameRan ==
  /\ ~world.defined /\ lostFrames /\ elapsed > 0
  /\ acc = 0 /\ updateCount = 0 /\ pc = "idle"

\* C13: in every frame with a defined world the callback writes the host's gravity
\* into the world's gravity Y before its loop, also when the loop takes no step;
\* every step runs under the gravity the host reports and leaves it alone; and no
\* step of the stepper changes gravity X.
GravityFollowsHost ==
  [][/\ (pc = "idle" /\ pc' = "loop") => world'.gravity.y = hostGravity
     /\ updateCount' # updateCount =>
          (world.gravity.y = hostGravity /\ world'.gravity = world.gravity)
     /\ world'.gravity.x = world.gravity.x]_vars

\* a first frame too short for a step, entered after the game raised the gravity
ZeroStepFrameGotGravity ==
  /\ pc = "loop" /\ updateCount = 0 /\ acc < PHYSICS_STEP
  /\ hostGravity = 200
  /\ world.gravity = Vec(0, 200)

----------------------------------------------------------------------------
(* Claims about translate (SpecObject) *)

----------------------------------------------------------------------------
(* Further claims about the body adapter (SpecBody) *)

\* C14: one body per adapter.  Over any sequence of accessors, mutators and update
\* hooks of an adapter, world.createRigidBody is called exactly once, by the first
\* of them, and world.createCollider at most once; every later operation leaves
\* the world's bodies, colliders and count of handles given out as they were.
OneBodyPerAdapter ==
  \A o \in Objs :
    /\ comp[o].made.bodies = (IF comp[o].touched THEN 1 ELSE 0)
    /\ comp[o].made.colliders <= 1
    /\ (last.o = o /\ last.op \in EnsuringOps /\ last.touched) =>
         WorldSets(world) = last.sets

\* an update hook on a body with a collider that an earlier call created, after steps
BodyReused ==
  /\ last.op = "update" /\ last.touched /\ last.threw = ""
  /\ comp[last.o].made.bodies = 1 /\ comp[last.o].made.colliders = 1
  /\ updateCount > 0

\* C16: failed lazy creation is atomic.  When an operation fails because the
\* polygon's vertex list has no convex hull, the world has no body more than
\* before and the adapter has none, so every later operation or update hook of
\* that adapter fails with the same error.
FailedCreationAtomic ==
  /\ (last.op \in EnsuringOps /\ last.threw = "polygon is not convex") =>
       /\ DOMAIN world.bodies = last.sets[1]
       /\ comp[last.o].rbody = Null
  /\ (last.op \in EnsuringOps /\ Is(gobj[last.o], "polygon")
        /\ convexHull(convertPolygonPts(gobj[last.o].pts)) = NullDesc) =>
       last.threw = "polygon is not convex"

\* C17: position is stable without simulation.  For an object of any shape and
\* anchor, when the update hook creates the body and writes the position back, no
\* step and no translate in between, the position written is the position the
\* object had at creation.
PositionStable ==
  (last.op = "update" /\ ~last.touched /\ last.threw = "") =>
    gobj[last.o].pos = comp[last.o].made.obj.pos

----------------------------------------------------------------------------
(* Claims about an object the game changes (SpecObject) *)

\* C15: shape and anchor are captured at lazy creation.  The position the update
\* hook writes for a body translation is the one toAnchor gives for the anchor and
\* shape the object had when the body was created, whatever they are now.
CapturedAtCreation ==
  (last.op = "update" /\ last.threw = "") =>
    gobj[last.o].pos =
      translateCenterToAnchor(world.bodies[comp[last.o].rbody].translation,
                              comp[last.o].made.obj, IsVisible(comp[last.o].made.obj))

\* C18: rotation is stable without simulation.  With no step run, the angle the
\* update hook writes back is the angle the object had when the body was created,
\* zero or not.
RotationStable ==
  (last.op = "update" /\ last.threw = "") =>
    gobj[last.o].angle = comp[last.o].made.obj.angle

\* C20: creation options take effect.  Once a shaped object has its body and
\* collider, the collider's mass is opts.mass (default 1) and the body's gravity
\* scale is opts.gravityScale (default 1); and the bounciness getter, when it is
\* the call that creates them, returns opts.bounciness.
OptionsTakeEffect ==
  \A o \in Objs :
    (comp[o].state = "alive" /\ comp[o].collider # Null) =>
      /\ world.colliders[comp[o].collider].mass = OrElse(comp[o].opts.mass, DefaultMass)
      /\ world.bodies[comp[o].rbody].gravityScale =
           OrElse(comp[o].opts.gravityScale, DefaultGravityScale)
      /\ (last.op = "bounciness.get" /\ last.o = o /\ ~last.touched /\ last.threw = ""
            /\ comp[o].opts.bounciness.given) =>
           last.num = comp[o].opts.bounciness.value

----------------------------------------------------------------------------
(* Claims about destruction (SpecDestroy) *)

\* C19: destruction is final and idempotent.  After destroy() an adapter refers to
\* no body that has left the world; a second destroy() changes nothing in the
\* world and raises nothing; and no later accessor or update hook returns from
\* work on a body that has left the world.
DestructionFinal ==
  /\ \A o \in Objs : comp[o].rbody # Null => comp[o].rbody \in DOMAIN world.bodies
  /\ (last.op = "destroy" /\ comp[last.o].made.bodies > 0
        /\ comp[last.o].rbody \notin last.sets[1]) =>
       (WorldSets(world) = last.sets /\ last.threw = "")
  /\ (last.op \in EnsuringOps /\ last.threw = "") =>
       comp[last.o].rbody \in DOMAIN world.bodies

----------------------------------------------------------------------------
(* Claims about the termination of a frame (SpecStepper) *)

\* C21: the stepping loop of a frame terminates for every step interval the option
\* accepts, zero and negative ones included: every iteration of the loop takes
\* the accumulator strictly down and leaves it non-negative, so a frame takes
\* finitely many steps and returns.
FrameLoopTerminates ==
  [][(pc = "loop" /\ updateCount' # updateCount) => (acc' < acc /\ acc' >= 0)]_vars

=============================================================================
